---------------------------- MODULE Spec2Model ----------------------------
(***************************************************************************)
(* Model of testfiles/slendemake_fx/convertmap.py: the converter that      *)
(* turns a Tiled map document into the fxdata.txt tables (tile grid,       *)
(* sprite grid, page / slender landmark tables).                           *)
(*                                                                         *)
(* The script is one sequential run.  The state is the script's globals,   *)
(* the output file and the position of the run (pc); every loop iteration  *)
(* and every straight-line block of the script is one action.  A failed    *)
(* assert or an uncaught exception ends the run in pc = "abort".           *)
(*                                                                         *)
(* Strings the script inspects (a tileset's source, an object's name) are  *)
(* sequences of one-character strings, so that the substring test and      *)
(* int() are computed.  Pixel coordinates are integers; x and y of the     *)
(* script (floats, exact multiples of 1/16) are kept in sixteenths.        *)
(***************************************************************************)
EXTENDS Integers, Sequences, FiniteSets

(***************************************************************************)
(* Program constants (convertmap.py lines 5-13).                           *)
(***************************************************************************)
sbytes == 2
entrancetile == 2
pagesprite == 10
slendersprite == 11
tilesize == 16
spriteview == 13
spritemax == 30
\* range(20) at line 57: the number of landmark slots
NumLandmarks == 20
\* the literal of the assert at line 169
MaxTruePos == 256

(***************************************************************************)
(* Bounds of the explored inputs.                                          *)
(***************************************************************************)
\* tile documents: every grid with width * height <= MaxCells
MaxCells == 6
\* object documents: grid size, and the longest object list
ObjGridW == 2
ObjGridH == 2
MaxObjs == 2
\* dense documents: grids of spriteview .. MaxDense columns and rows
MaxDense == 14
\* landmark documents: the largest number of landmark objects
MaxLandmarkObjs == 256

(***************************************************************************)
(* Python values.                                                          *)
(***************************************************************************)
\* None is the empty option; a value v is <<v>>
None == <<>>
Some(v) == <<v>>

Max(a, b) == IF a >= b THEN a ELSE b
Min(a, b) == IF a <= b THEN a ELSE b

\* `sub in s` for two strings
Contains(sub, s) ==
    \E k \in 0..(Len(s) - Len(sub)) : SubSeq(s, k + 1, k + Len(sub)) = sub

\* list[idx] for a list of length n: the 1-based position read or written,
\* 0 for IndexError.  A negative index counts from the end.
ListPos(idx, n) ==
    IF idx >= 0 /\ idx < n THEN idx + 1
    ELSE IF idx < 0 /\ idx >= -n THEN n + idx + 1
    ELSE 0

Digits == <<"0", "1", "2", "3", "4", "5", "6", "7", "8", "9">>
IsDigit(c) == \E d \in 1..10 : Digits[d] = c
DigitVal(c) == (CHOOSE d \in 1..10 : Digits[d] = c) - 1

RECURSIVE Strip(_)
\* str.strip() as int() applies it: leading and trailing blanks removed
Strip(s) ==
    IF s = <<>> THEN s
    ELSE IF Head(s) = " " THEN Strip(Tail(s))
    ELSE IF s[Len(s)] = " " THEN Strip(SubSeq(s, 1, Len(s) - 1))
    ELSE s

RECURSIVE DecimalValue(_, _)
\* the value of a string of decimal digits, most significant first
DecimalValue(s, acc) ==
    IF s = <<>> THEN acc ELSE DecimalValue(Tail(s), 10 * acc + DigitVal(Head(s)))

\* int(s): Some(n), or None for ValueError.  Blanks around the number and
\* one sign are accepted, then at least one digit and only digits.
ParseInt(s) ==
    LET t == Strip(s)
        signed == t # <<>> /\ Head(t) \in {"-", "+"}
        body == IF signed THEN Tail(t) ELSE t
    IN  IF body = <<>> \/ \E k \in 1..Len(body) : ~IsDigit(body[k])
        THEN None
        ELSE IF signed /\ Head(t) = "-"
             THEN Some(0 - DecimalValue(body, 0))
             ELSE Some(DecimalValue(body, 0))


(***************************************************************************)
(* The map documents explored.  A document is the parsed map.json: layers  *)
(* (each with type, width, height, data, objects) and tilesets (each with  *)
(* source and firstgid).  An object has x, y, width, height (pixels), gid  *)
(* and name.                                                               *)
(***************************************************************************)
Layer(t, w, h, d, o) ==
    [type |-> t, width |-> w, height |-> h, data |-> d, objects |-> o]
TileLayer(w, h, d) == Layer("tilelayer", w, h, d, <<>>)
ObjectGroup(o) == Layer("objectgroup", 0, 0, <<>>, o)
ImageLayer == Layer("imagelayer", 0, 0, <<>>, <<>>)
Tileset(src, gid) == [source |-> src, firstgid |-> gid]
Obj(px, py, pw, ph, g, nm) ==
    [x |-> px, y |-> py, width |-> pw, height |-> ph, gid |-> g, name |-> nm]

SrcTiles == <<"t", "i", "l", "e", "s", ".", "t", "s", "x">>
SrcSprites == <<"s", "p", "r", "i", "t", "e", "s", ".", "t", "s", "x">>
\* a sprite sheet kept in a directory called tiles: "tiles/sprites.tsx"
SrcTilesDirSprites ==
    <<"t", "i", "l", "e", "s", "/", "s", "p", "r", "i", "t", "e", "s", ".", "t", "s", "x">>
SrcOther == <<"b", "g", ".", "t", "s", "x">>

\* first global ids of the two sheets in the documents that fix them
DocTileGid == 1
DocSpriteGid == 5
StdTilesets == <<Tileset(SrcTiles, DocTileGid), Tileset(SrcSprites, DocSpriteGid)>>

Zeros(n) == [k \in 1..n |-> 0]

\* the decimal name of a landmark number 0 .. 99
IntToName(n) ==
    IF n < 10 THEN <<Digits[n + 1]>> ELSE <<Digits[(n \div 10) + 1], Digits[(n % 10) + 1]>>

\* an ordinary 16x16 sprite whose centre lies in the middle of cell (cx, cy)
\* of a grid w columns wide
CellObj(w, cx, cy, g) ==
    Obj(tilesize * w - tilesize * cx - tilesize, tilesize * cy + tilesize,
        tilesize, tilesize, g, <<>>)

\* Loader documents: which layers and which tilesets are present
LayerLists ==
    LET T == TileLayer(2, 1, <<3, 1>>)
        O == ObjectGroup(<<CellObj(2, 0, 0, 6)>>)
    IN  { <<T, O>>, <<O, T>>, <<T>>, <<O>>, <<>>, <<ImageLayer, T, O>>,
          <<TileLayer(1, 1, <<1>>), O, T>> }
TilesetPool ==
    { Tileset(SrcTiles, 1), Tileset(SrcTiles, 2), Tileset(SrcSprites, 5),
      Tileset(SrcTilesDirSprites, 5), Tileset(SrcOther, 9) }
TilesetLists ==
    {<<>>} \cup { <<a>> : a \in TilesetPool }
           \cup { <<a, b>> : a \in TilesetPool, b \in TilesetPool }
LoaderDocs ==
    { [layers |-> l, tilesets |-> t] : l \in LayerLists, t \in TilesetLists }

\* Tile documents: every grid of at most MaxCells cells over three raw ids:
\* 0 (below the first gid), the entrance tile and another tile
RawTiles == {0, DocTileGid + entrancetile, DocTileGid + entrancetile + 1}
TileDims ==
    { d \in (1..MaxCells) \X (1..MaxCells) : d[1] * d[2] <= MaxCells }
TileDocs ==
    UNION { { [layers |-> <<TileLayer(d[1], d[2], data), ObjectGroup(<<>>)>>,
               tilesets |-> StdTilesets] :
              data \in [1..(d[1] * d[2]) -> RawTiles] } : d \in TileDims }

\* Object documents: every list of at most MaxObjs objects of the pool, on
\* an ObjGridW x ObjGridH grid (for the 2 x 2 grid the cell is given)
PageGid == DocSpriteGid + pagesprite
SlenderGid == DocSpriteGid + slendersprite
ObjectPool ==
    LET g == DocSpriteGid
    IN  { Obj(0, 16, 16, 16, g + 1, <<>>),     \* cell (1,0), id 1
          Obj(4, 20, 16, 16, g + 2, <<>>),     \* cell (1,0), id 2, other fraction
          Obj(16, 32, 16, 16, g + 1, <<>>),    \* cell (0,1)
          Obj(16, 16, 16, 64, g + 4, <<>>),    \* cell (0,0), tall object
          Obj(-8, 16, 16, 16, g + 3, <<>>),    \* column = width, row 0
          Obj(0, 0, 16, 16, g + 1, <<>>),      \* row -1
          Obj(40, 16, 16, 16, g + 1, <<>>),    \* column -1
          Obj(0, 48, 16, 16, g + 1, <<>>),     \* row = height
          Obj(0, 16, 16, 16, g, <<>>),         \* id 0
          Obj(0, 16, 16, 16, g - 2, <<>>),     \* gid below the first gid
          Obj(0, 16, 16, 16, PageGid, <<"0">>),
          Obj(16, 32, 16, 16, PageGid, <<"1", "9">>),
          Obj(16, 32, 16, 16, PageGid, <<"2", "0">>),
          Obj(0, 16, 16, 16, PageGid, <<"-", "1">>),
          Obj(0, 16, 16, 16, PageGid, <<"x">>),
          Obj(0, 16, 16, 16, SlenderGid, <<" ", "3">>),
          Obj(16, 32, 16, 16, SlenderGid, <<"-", "2", "0">>),
          Obj(16, 32, 16, 16, SlenderGid, <<"-", "2", "1">>) }
ObjectLists ==
    UNION { [1..n -> ObjectPool] : n \in 0..MaxObjs }
ObjectDocs ==
    { [layers |-> <<TileLayer(ObjGridW, ObjGridH, Zeros(ObjGridW * ObjGridH)),
                    ObjectGroup(o)>>,
       tilesets |-> StdTilesets] : o \in ObjectLists }

\* Dense documents: spritemax or spritemax + 1 ordinary sprites packed row by
\* row into the spriteview x spriteview window at offset (xo, yo)
DenseSizes == spriteview..MaxDense
DenseObjects(w, xo, yo, n) ==
    [k \in 1..n |->
        CellObj(w, xo + ((k - 1) % spriteview), yo + ((k - 1) \div spriteview),
                DocSpriteGid + 1)]
DenseDocs ==
    UNION { { [layers |-> <<TileLayer(w, h, Zeros(w * h)),
                            ObjectGroup(DenseObjects(w, xo, yo, n))>>,
               tilesets |-> StdTilesets] :
              xo \in 0..(w - spriteview), yo \in 0..(h - spriteview),
              n \in {spritemax, spritemax + 1} } :
            w \in DenseSizes, h \in DenseSizes }

\* Landmark documents: n page objects, or n slender objects, spread over
\* the landmark slots
LandmarkCounts == {MaxTruePos \div 2, MaxTruePos - 1} \cup (MaxTruePos..MaxLandmarkObjs)
LandmarkObjects(g, n) ==
    [k \in 1..n |-> Obj(0, 16, 16, 16, g, IntToName((7 * k) % NumLandmarks))]
LandmarkDocs ==
    { [layers |-> <<TileLayer(1, 1, <<0>>), ObjectGroup(LandmarkObjects(g, n))>>,
       tilesets |-> StdTilesets] :
      g \in {PageGid, SlenderGid}, n \in LandmarkCounts }

Documents == LoaderDocs \cup TileDocs \cup ObjectDocs \cup DenseDocs \cup LandmarkDocs


(***************************************************************************)
(* State.                                                                  *)
(***************************************************************************)
VARIABLES
    jmap,         \* the parsed map document (line 19)
    pc,           \* the position of the run
    tilelayer,    \* None or Some(layer)
    objectlayer,  \* None or Some(layer)
    tilegid,      \* None or Some(firstgid)
    spritegid,    \* None or Some(firstgid)
    width, height,
    tmap,         \* the tile grid, width * height values
    smap,         \* the sprite grid, sbytes values per cell
    pages,        \* NumLandmarks lists of coordinates
    slenders,     \* NumLandmarks lists of coordinates
    entrance_x, entrance_y,
    i,            \* the tile loop's index (line 77)
    objidx,       \* the number of objects the object loop has taken (line 91)
    outfile,      \* the content of fxdata.txt: a list of named tables
    fstate,       \* "unopened", "open" or "closed"
    abortmsg      \* the assert or exception that ended the run, "" if none

vars ==
    <<jmap, pc, tilelayer, objectlayer, tilegid, spritegid, width, height, tmap,
      smap, pages, slenders, entrance_x, entrance_y, i, objidx, outfile, fstate,
      abortmsg>>

\* what fxdata.txt holds before the run: the output of an earlier run
PreviousFile == <<[name |-> "previous", body |-> <<>>]>>

Init ==
    /\ jmap \in Documents
    /\ pc = "load"
    /\ tilelayer = None
    /\ objectlayer = None
    /\ tilegid = None
    /\ spritegid = None
    /\ width = 0
    /\ height = 0
    /\ tmap = <<>>
    /\ smap = <<>>
    /\ pages = <<>>
    /\ slenders = <<>>
    /\ entrance_x = 0
    /\ entrance_y = 0
    /\ i = 0
    /\ objidx = 0
    /\ outfile = PreviousFile
    /\ fstate = "unopened"
    /\ abortmsg = ""

\* the run ends with message m; the globals given stay as they are
Abort(m) ==
    /\ pc' = "abort"
    /\ abortmsg' = m

(***************************************************************************)
(* Loader (lines 23-59).                                                   *)
(***************************************************************************)
RECURSIVE ScanLayers(_, _, _)
\* the loop of lines 29-33 from layer k on; acc holds tilelayer, objectlayer
ScanLayers(layers, k, acc) ==
    IF k > Len(layers) THEN acc
    ELSE IF layers[k].type = "tilelayer"
         THEN ScanLayers(layers, k + 1, [acc EXCEPT !.tilelayer = Some(layers[k])])
    ELSE IF layers[k].type = "objectgroup"
         THEN ScanLayers(layers, k + 1, [acc EXCEPT !.objectlayer = Some(layers[k])])
    ELSE ScanLayers(layers, k + 1, acc)

\* lines 37-40 for one tileset; acc holds tilegid, spritegid
ScanTileset(acc, tileset) ==
    IF Contains(<<"t", "i", "l", "e">>, tileset.source)
    THEN [acc EXCEPT !.tilegid = Some(tileset.firstgid)]
    ELSE IF Contains(<<"s", "p", "r", "i", "t", "e">>, tileset.source)
    THEN [acc EXCEPT !.spritegid = Some(tileset.firstgid)]
    ELSE acc

RECURSIVE ScanTilesets(_, _, _)
\* the loop of lines 36-40 from tileset k on
ScanTilesets(tilesets, k, acc) ==
    IF k > Len(tilesets) THEN acc
    ELSE ScanTilesets(tilesets, k + 1, ScanTileset(acc, tilesets[k]))

\* the first assert of lines 42-45 that fails, "" if none fails
LoadAssert(tl, ol, tg, sg) ==
    IF tl = None THEN "No tile layer found!"
    ELSE IF ol = None THEN "No object layer found!"
    ELSE IF tg = None THEN "No tileset gid found!"
    ELSE IF sg = None THEN "No spriteset gid found!"
    ELSE ""

Load ==
    /\ pc = "load"
    /\ LET ls == ScanLayers(jmap.layers, 1, [tilelayer |-> None, objectlayer |-> None])
           ts == ScanTilesets(jmap.tilesets, 1, [tilegid |-> None, spritegid |-> None])
           msg == LoadAssert(ls.tilelayer, ls.objectlayer, ts.tilegid, ts.spritegid)
       IN  /\ tilelayer' = ls.tilelayer
           /\ objectlayer' = ls.objectlayer
           /\ tilegid' = ts.tilegid
           /\ spritegid' = ts.spritegid
           /\ IF msg # ""
              THEN /\ Abort(msg)
                   /\ UNCHANGED <<width, height, tmap, smap, pages, slenders>>
              ELSE /\ pc' = "raster"
                   /\ abortmsg' = ""
                   /\ width' = ls.tilelayer[1].width
                   /\ height' = ls.tilelayer[1].height
                   /\ tmap' = Zeros(ls.tilelayer[1].width * ls.tilelayer[1].height)
                   /\ smap' = Zeros(ls.tilelayer[1].width * ls.tilelayer[1].height * sbytes)
                   /\ pages' = [k \in 1..NumLandmarks |-> <<>>]
                   /\ slenders' = [k \in 1..NumLandmarks |-> <<>>]
    /\ UNCHANGED <<jmap, entrance_x, entrance_y, i, objidx, outfile, fstate>>

(***************************************************************************)
(* Tile rasterizer (lines 61-86).                                          *)
(***************************************************************************)
\* tile map index
tmi(x, y) == x + y * width

\* sprite map index
smi(x, y) == sbytes * (x + y * width)

\* line 78 without the swap of the X coordinates
FlipXUnswapped(k) == k % width

\* line 78: the column of source entry k, flipped
FlipX(k) == width - 1 - (k % width)

\* line 79: the row of source entry k
RowOf(k) == k \div width

\* line 81: a raw tile id rebased to the sheet, never negative
Rebase(raw, gid) == Max(0, raw - gid)

\* lines 82-84 keeping the first entrance found instead of the last
NewEntranceFirstWins(cur, val, mx, my) ==
    IF val = entrancetile /\ cur = <<0, 0>> THEN <<mx, my>> ELSE cur

\* lines 82-84: the entrance after value val was stored at (mx, my)
NewEntrance(cur, val, mx, my) ==
    IF val = entrancetile THEN <<mx, my>> ELSE cur

RasterStep ==
    /\ pc = "raster"
    /\ i < Len(tilelayer[1].data)
    /\ IF width = 0
       THEN /\ Abort("ZeroDivisionError")
            /\ UNCHANGED <<tmap, entrance_x, entrance_y, i>>
       ELSE LET mx == FlipX(i)
                my == RowOf(i)
                pos == ListPos(tmi(mx, my), Len(tmap))
                val == Rebase(tilelayer[1].data[i + 1], tilegid[1])
                ent == NewEntrance(<<entrance_x, entrance_y>>, val, mx, my)
            IN  IF pos = 0
                THEN /\ Abort("IndexError")
                     /\ UNCHANGED <<tmap, entrance_x, entrance_y, i>>
                ELSE /\ tmap' = [tmap EXCEPT ![pos] = val]
                     /\ entrance_x' = ent[1]
                     /\ entrance_y' = ent[2]
                     /\ i' = i + 1
                     /\ UNCHANGED <<pc, abortmsg>>
    /\ UNCHANGED <<jmap, tilelayer, objectlayer, tilegid, spritegid, width, height,
                   smap, pages, slenders, objidx, outfile, fstate>>

RasterEnd ==
    /\ pc = "raster"
    /\ i >= Len(tilelayer[1].data)
    /\ pc' = "place"
    /\ UNCHANGED <<jmap, tilelayer, objectlayer, tilegid, spritegid, width, height,
                   tmap, smap, pages, slenders, entrance_x, entrance_y, i, objidx,
                   outfile, fstate, abortmsg>>

(***************************************************************************)
(* Object placer (lines 91-126).  x and y of the script are held as        *)
(* numerators over tilesize, which is exact for integer pixel positions.   *)
(***************************************************************************)
\* line 94: tilesize * x
ObjX(obj) == tilesize * width - (obj.x + obj.width \div 2)

\* line 95: tilesize * y
ObjY(obj) == obj.y - Min(obj.height \div 2, 16)

\* line 97
SpriteId(obj) == Max(0, obj.gid - spritegid[1])

\* lines 102-103: math.floor of x and of y
MapX(obj) == ObjX(obj) \div tilesize
MapY(obj) == ObjY(obj) \div tilesize

\* math.floor(16 * (v - math.floor(v))) for v = n / tilesize
Frac16(n) == (16 * (n % tilesize)) \div tilesize

\* lines 105 and 125: x fraction in the low four bits, y fraction shifted by 4
MapFraction(obj) == Frac16(ObjX(obj)) + Frac16(ObjY(obj)) * 16

\* lines 109-111 and 114-116: the landmark lists after routing (mapx, mapy)
\* by the object's name; msg is the exception, "" if none
RouteLandmark(lists, obj) ==
    LET locationid == ParseInt(obj.name)
        pos == IF locationid = None THEN 0 ELSE ListPos(locationid[1], Len(lists))
    IN  IF locationid = None THEN [msg |-> "ValueError", lists |-> lists]
        ELSE IF pos = 0 THEN [msg |-> "IndexError", lists |-> lists]
        ELSE [msg |-> "",
              lists |-> [lists EXCEPT ![pos] = Append(Append(@, MapX(obj)), MapY(obj))]]

\* lines 121-126: the sprite grid after placing an ordinary sprite of the
\* given id; msg is the failed assert or the exception, "" if none
WriteSprite(grid, obj, id) ==
    LET mapi == smi(MapX(obj), MapY(obj))
        pos == ListPos(mapi, Len(grid))
        pos2 == ListPos(mapi + 1, Len(grid))
        g1 == [grid EXCEPT ![pos] = id]
        g2 == [g1 EXCEPT ![pos2] = MapFraction(obj)]
    IN  IF pos = 0 THEN [msg |-> "IndexError", smap |-> grid]
        ELSE IF grid[pos] # 0
             THEN [msg |-> "Two sprites in the same location", smap |-> grid]
        ELSE IF pos2 = 0 THEN [msg |-> "IndexError", smap |-> g1]
        ELSE IF ~(g2[pos2] < 256)
             THEN [msg |-> "Invalid smap float position", smap |-> g2]
        ELSE [msg |-> "", smap |-> g2]

\* one iteration of the loop of line 91: msg and the three structures after it
PlaceOutcome(obj) ==
    LET id == SpriteId(obj)
        same == [msg |-> "", smap |-> smap, pages |-> pages, slenders |-> slenders]
    IN  IF ~(id > 0) THEN [same EXCEPT !.msg = "Sprite ID invalid"]
        ELSE IF id = pagesprite
             THEN LET r == RouteLandmark(pages, obj)
                  IN  [same EXCEPT !.msg = r.msg, !.pages = r.lists]
        ELSE IF id = slendersprite
             THEN LET r == RouteLandmark(slenders, obj)
                  IN  [same EXCEPT !.msg = r.msg, !.slenders = r.lists]
        ELSE LET r == WriteSprite(smap, obj, id)
             IN  [same EXCEPT !.msg = r.msg, !.smap = r.smap]

PlaceObject ==
    /\ pc = "place"
    /\ objidx < Len(objectlayer[1].objects)
    /\ LET r == PlaceOutcome(objectlayer[1].objects[objidx + 1])
       IN  /\ smap' = r.smap
           /\ pages' = r.pages
           /\ slenders' = r.slenders
           /\ IF r.msg # ""
              THEN Abort(r.msg) /\ UNCHANGED objidx
              ELSE objidx' = objidx + 1 /\ UNCHANGED <<pc, abortmsg>>
    /\ UNCHANGED <<jmap, tilelayer, objectlayer, tilegid, spritegid, width, height,
                   tmap, entrance_x, entrance_y, i, outfile, fstate>>

PlaceEnd ==
    /\ pc = "place"
    /\ objidx >= Len(objectlayer[1].objects)
    /\ pc' = "density"
    /\ UNCHANGED <<jmap, tilelayer, objectlayer, tilegid, spritegid, width, height,
                   tmap, smap, pages, slenders, entrance_x, entrance_y, i, objidx,
                   outfile, fstate, abortmsg>>

(***************************************************************************)
(* Density validator (lines 130-137).                                      *)
(***************************************************************************)
\* range(n)
Range(n) == 0..(n - 1)

\* lines 132-136: the occupied cells of the window at offset (xo, yo)
SpriteTotal(xo, yo) ==
    Cardinality({ c \in Range(spriteview) \X Range(spriteview) :
                    smap[ListPos(smi(xo + c[1], yo + c[2]), Len(smap))] # 0 })

\* lines 130-131: the window offsets the loops visit
DensityOffsets == Range(width - spriteview) \X Range(height - spriteview)

DensityCheck ==
    /\ pc = "density"
    /\ IF \E o \in DensityOffsets : ~(SpriteTotal(o[1], o[2]) <= spritemax)
       THEN Abort("Too many sprites in quadrant")
       ELSE pc' = "open" /\ UNCHANGED abortmsg
    /\ UNCHANGED <<jmap, tilelayer, objectlayer, tilegid, spritegid, width, height,
                   tmap, smap, pages, slenders, entrance_x, entrance_y, i, objidx,
                   outfile, fstate>>

(***************************************************************************)
(* Emitter (lines 147-218).  The file is a list of named tables; a table's *)
(* body is the list of numbers written into it, in order.  Separators and  *)
(* line breaks are not kept.                                               *)
(***************************************************************************)
Table(n, b) == [name |-> n, body |-> b]

\* lines 157-164 without the count byte in totalraw (line 158 left out)
DumpEntryNoCount(acc, slot, numbytes) ==
    [indexes |-> Append(acc.indexes, acc.totalraw),
     totalraw |-> acc.totalraw + Len(slot),
     raw |-> acc.raw \o <<Len(slot) \div numbytes>> \o slot,
     trueraw |-> acc.trueraw \o slot]

\* lines 157-164 for one non-empty slot; acc holds indexes, trueraw,
\* totalraw and the numbers written to the raw table so far
DumpEntry(acc, slot, numbytes) ==
    [indexes |-> Append(acc.indexes, acc.totalraw),
     totalraw |-> acc.totalraw + 1 + Len(slot),
     raw |-> acc.raw \o <<Len(slot) \div numbytes>> \o slot,
     trueraw |-> acc.trueraw \o slot]

RECURSIVE DumpScan(_, _, _, _)
\* the loop of lines 154-165 from slot pi on
DumpScan(data, numbytes, pi, acc) ==
    IF pi > Len(data) THEN acc
    ELSE IF Len(data[pi]) = 0 THEN DumpScan(data, numbytes, pi + 1, acc)
    ELSE DumpScan(data, numbytes, pi + 1, DumpEntry(acc, data[pi], numbytes))

\* lines 168-169 with the comparison off by one
TruePosOKInclusive(trueraw, numbytes) == (Len(trueraw) \div numbytes) <= MaxTruePos

\* lines 168-169: the assert on the number of positions
TruePosOK(trueraw, numbytes) == (Len(trueraw) \div numbytes) < MaxTruePos

\* dumplocbased(basename, data, numbytes), then the run goes on at pc = next
DumpLocBased(basename, data, numbytes, next) ==
    LET d == DumpScan(data, numbytes, 1,
                      [indexes |-> <<>>, totalraw |-> 0, raw |-> <<>>, trueraw |-> <<>>])
        rawtable == Table(basename \o "_raw", d.raw)
    IN  IF ~TruePosOK(d.trueraw, numbytes)
        THEN /\ outfile' = Append(outfile, rawtable)
             /\ fstate' = "closed"
             /\ Abort("Too many raw locations for indexing with a single byte!")
        ELSE /\ outfile' = outfile \o
                    << rawtable,
                       Table(basename \o "_trueraw",
                             <<Len(d.trueraw) \div numbytes>> \o d.trueraw),
                       Table(basename \o "_offsets", d.indexes) >>
             /\ pc' = next
             /\ UNCHANGED <<fstate, abortmsg>>

\* line 189 moved before the density check of lines 130-137
OpenOutputBeforeDensity ==
    /\ pc = "density"
    /\ fstate = "unopened"
    /\ fstate' = "open"
    /\ outfile' = <<>>
    /\ UNCHANGED <<jmap, pc, tilelayer, objectlayer, tilegid, spritegid, width,
                   height, tmap, smap, pages, slenders, entrance_x, entrance_y, i,
                   objidx, abortmsg>>

\* line 189: open(outfile, "w") truncates the file
OpenOutput ==
    /\ pc = "open"
    /\ fstate' = "open"
    /\ outfile' = <<>>
    /\ pc' = "emit"
    /\ UNCHANGED <<jmap, tilelayer, objectlayer, tilegid, spritegid, width, height,
                   tmap, smap, pages, slenders, entrance_x, entrance_y, i, objidx,
                   abortmsg>>

\* lines 194-198: the tile grid, row by row
StaticMap ==
    [k \in 1..(height * width) |->
        tmap[ListPos(tmi((k - 1) % width, (k - 1) \div width), Len(tmap))]]

\* lines 202-208: the sprite grid, row by row, sbytes numbers per cell
StaticSprites ==
    [k \in 1..(height * width * sbytes) |->
        LET c == (k - 1) \div sbytes
        IN  smap[ListPos(smi(c % width, c \div width) + ((k - 1) % sbytes), Len(smap))]]

\* lines 191-209
EmitGrids ==
    /\ pc = "emit"
    /\ outfile' = outfile \o
            << Table("Entrance", <<entrance_x, entrance_y>>),
               Table("staticmap_fx", StaticMap),
               Table("staticsprites_fx", StaticSprites) >>
    /\ pc' = "pagelocs"
    /\ UNCHANGED <<jmap, tilelayer, objectlayer, tilegid, spritegid, width, height,
                   tmap, smap, pages, slenders, entrance_x, entrance_y, i, objidx,
                   fstate, abortmsg>>

\* line 211
DumpPages ==
    /\ pc = "pagelocs"
    /\ DumpLocBased("pagelocs", pages, 2, "slenderlocs")
    /\ UNCHANGED <<jmap, tilelayer, objectlayer, tilegid, spritegid, width, height,
                   tmap, smap, pages, slenders, entrance_x, entrance_y, i, objidx>>

\* line 212
DumpSlenders ==
    /\ pc = "slenderlocs"
    /\ DumpLocBased("slenderlocs", slenders, 2, "images")
    /\ UNCHANGED <<jmap, tilelayer, objectlayer, tilegid, spritegid, width, height,
                   tmap, smap, pages, slenders, entrance_x, entrance_y, i, objidx>>

\* lines 214-221: the five image references; the with block closes the file
EmitImages ==
    /\ pc = "images"
    /\ outfile' = outfile \o
            << Table("rotbg", <<>>), Table("rotbg_day", <<>>), Table("pages", <<>>),
               Table("soundgraphic", <<>>), Table("gameover", <<>>) >>
    /\ fstate' = "closed"
    /\ pc' = "done"
    /\ UNCHANGED <<jmap, tilelayer, objectlayer, tilegid, spritegid, width, height,
                   tmap, smap, pages, slenders, entrance_x, entrance_y, i, objidx,
                   abortmsg>>

Next ==
    \/ Load
    \/ RasterStep
    \/ RasterEnd
    \/ PlaceObject
    \/ PlaceEnd
    \/ DensityCheck
    \/ OpenOutput
    \/ EmitGrids
    \/ DumpPages
    \/ DumpSlenders
    \/ EmitImages

Spec == Init /\ [][Next]_vars

(***************************************************************************)
(* Vocabulary of the properties.                                           *)
(***************************************************************************)
LoaderMsgs ==
    { "No tile layer found!", "No object layer found!", "No tileset gid found!",
      "No spriteset gid found!" }
OverflowMsg == "Too many raw locations for indexing with a single byte!"

\* positions of the run after each stage has completed
PastOpen == {"emit", "pagelocs", "slenderlocs", "images", "done"}
PastDensity == {"open"} \cup PastOpen
PastPlace == {"density"} \cup PastDensity
PastRaster == {"place"} \cup PastPlace
PastPages == {"slenderlocs", "images", "done"}
PastSlenders == {"images", "done"}

SourceData == tilelayer[1].data
Objects == objectlayer[1].objects

HasTable(n) == \E k \in 1..Len(outfile) : outfile[k].name = n
TableBody(n) == outfile[CHOOSE k \in 1..Len(outfile) : outfile[k].name = n].body

RECURSIVE TotalLen(_, _)
\* the number of coordinate bytes in the first n slots of a landmark list
TotalLen(lists, n) ==
    IF n = 0 THEN 0 ELSE TotalLen(lists, n - 1) + Len(lists[n])

(***************************************************************************)
(* C4.  Tile rasterization: once the rasterizer has run over a data array  *)
(* of length width * height, every source entry k is stored, rebased and   *)
(* clamped at 0, at column width-1-(k mod width) of row k div width; cell  *)
(* (x, y) therefore holds max(0, data[(width-1-x) + y*width] - firstgid),  *)
(* the flip maps the columns of a row one to one onto themselves (applied  *)
(* twice it is the identity), so every cell is written exactly once, and   *)
(* no value is negative.                                                   *)
(***************************************************************************)
C4_TileRasterization ==
    (pc \in PastRaster /\ Len(SourceData) = width * height) =>
        /\ Len(tmap) = width * height
        /\ \A k \in 0..(Len(SourceData) - 1) :
              tmap[(width - 1 - (k % width)) + (k \div width) * width + 1]
                  = Max(0, SourceData[k + 1] - tilegid[1])
        /\ \A x \in 0..(width - 1), y \in 0..(height - 1) :
              /\ tmap[x + y * width + 1]
                    = Max(0, SourceData[(width - 1 - x) + y * width + 1] - tilegid[1])
              /\ tmap[x + y * width + 1] >= 0
              /\ FlipX(FlipX(x)) = x
        /\ { (width - 1 - (k % width)) + (k \div width) * width :
                k \in 0..(Len(SourceData) - 1) } = 0..(width * height - 1)

\* a grid of at least 2 x 2 cells has been rasterized, one entry was clamped
\* at 0 and the flip has moved a value to another column
C4_Witness ==
    /\ pc = "place"
    /\ width >= 2
    /\ height >= 2
    /\ \E k \in 1..Len(SourceData) : SourceData[k] - tilegid[1] < 0
    /\ tmap[1] # Max(0, SourceData[1] - tilegid[1])

(***************************************************************************)
(* C5.  Entrance coordinate: after the rasterizer, if some cell of the     *)
(* tile grid equals the entrance marker, the recorded entrance is the      *)
(* flipped coordinate of the last source entry, in scan order, whose       *)
(* rebased value is the marker, and the grid holds the marker there; if no *)
(* cell equals the marker the entrance is (0,0).  The rasterizer never     *)
(* aborts: a run that aborts after the loader has rasterized every entry.  *)
(***************************************************************************)
C5_Entrance ==
    /\ (pc = "abort" /\ abortmsg \notin LoaderMsgs) => i = Len(SourceData)
    /\ pc \in PastRaster =>
          LET hits == { k \in 0..(Len(SourceData) - 1) :
                          Max(0, SourceData[k + 1] - tilegid[1]) = entrancetile }
          IN  IF \E p \in 1..Len(tmap) : tmap[p] = entrancetile
              THEN /\ hits # {}
                   /\ LET last == CHOOSE k \in hits : \A j \in hits : j <= k
                      IN  /\ entrance_x = width - 1 - (last % width)
                          /\ entrance_y = last \div width
                   /\ tmap[entrance_x + entrance_y * width + 1] = entrancetile
              ELSE entrance_x = 0 /\ entrance_y = 0

\* the rasterizer has met two entrance tiles and recorded the later one,
\* which is not at the origin
C5_Witness ==
    /\ pc = "place"
    /\ Cardinality({ k \in 1..Len(SourceData) :
                       SourceData[k] - tilegid[1] = entrancetile }) >= 2
    /\ <<entrance_x, entrance_y>> # <<0, 0>>

(***************************************************************************)
(* C3 (as amended).  Landmark table overflow: for each landmark list,      *)
(* emission aborts whenever the flattened coordinate table holds 256 or    *)
(* more coordinate pairs (512 bytes), and it completes for every list      *)
(* holding 255 or fewer pairs; a list of 128 pairs (256 bytes) is emitted. *)
(***************************************************************************)
C3_OverflowAtPairs ==
    /\ pc \in PastPages => TotalLen(pages, Len(pages)) \div 2 <= 255
    /\ pc \in PastSlenders => TotalLen(slenders, Len(slenders)) \div 2 <= 255
    /\ (pc = "abort" /\ abortmsg = OverflowMsg) =>
          IF HasTable("slenderlocs_raw")
          THEN TotalLen(slenders, Len(slenders)) \div 2 >= 256
          ELSE HasTable("pagelocs_raw") /\ TotalLen(pages, Len(pages)) \div 2 >= 256

\* the emission of a list of exactly 256 pairs has aborted
C3_Witness ==
    /\ pc = "abort"
    /\ abortmsg = OverflowMsg
    /\ TotalLen(pages, Len(pages)) = 512 \/ TotalLen(slenders, Len(slenders)) = 512

(***************************************************************************)
(* C3 as first stated: emission aborts whenever a landmark table would     *)
(* hold more than 255 coordinate bytes, so a list that has been emitted    *)
(* holds at most 255 bytes.                                                *)
(***************************************************************************)
C3_OverflowAtBytes ==
    /\ pc \in PastPages => TotalLen(pages, Len(pages)) <= 255
    /\ pc \in PastSlenders => TotalLen(slenders, Len(slenders)) <= 255

(***************************************************************************)
(* C6.  Landmark table layout: for each landmark list and every slot K     *)
(* that received N >= 1 coordinate pairs, the raw table holds one entry    *)
(* for K: the count N followed by exactly the 2N coordinate bytes of slot  *)
(* K in insertion order.  Entries come in increasing slot id, empty slots  *)
(* contribute nothing, and the offsets table entry at K's rank among the   *)
(* non-empty slots is the index in the raw table of K's count byte: the    *)
(* sum over the earlier non-empty slots of 1 + 2 * their pair count.       *)
(***************************************************************************)
RECURSIVE EntryStart(_, _)
\* the raw-table index at which the entry of slot K starts: the sizes of the
\* entries of the non-empty slots before K
EntryStart(lists, K) ==
    IF K = 1 THEN 0
    ELSE EntryStart(lists, K - 1)
            + (IF lists[K - 1] = <<>> THEN 0 ELSE 1 + Len(lists[K - 1]))

LandmarkLayout(basename, lists) ==
    LET raw == TableBody(basename \o "_raw")
        offsets == TableBody(basename \o "_offsets")
        nonempty == { K \in 1..Len(lists) : lists[K] # <<>> }
    IN  HasTable(basename \o "_raw") =>
          /\ Len(raw) = EntryStart(lists, Len(lists) + 1)
          /\ \A K \in nonempty :
                LET N == Len(lists[K]) \div 2
                    start == EntryStart(lists, K)
                IN  /\ N >= 1
                    /\ Len(lists[K]) = 2 * N
                    /\ raw[start + 1] = N
                    /\ SubSeq(raw, start + 2, start + 1 + 2 * N) = lists[K]
          /\ HasTable(basename \o "_offsets") =>
                /\ Len(offsets) = Cardinality(nonempty)
                /\ \A K \in nonempty :
                      offsets[Cardinality({ J \in nonempty : J < K }) + 1]
                          = EntryStart(lists, K)

C6_LandmarkLayout ==
    /\ LandmarkLayout("pagelocs", pages)
    /\ LandmarkLayout("slenderlocs", slenders)

\* the page tables have been emitted for at least three non-empty slots, one
\* of them holding two pairs or more, with an empty slot among them
C6_Witness ==
    /\ HasTable("pagelocs_offsets")
    /\ Cardinality({ K \in 1..Len(pages) : pages[K] # <<>> }) >= 3
    /\ \E K \in 1..Len(pages) : Len(pages[K]) >= 4
    /\ Len(TableBody("pagelocs_offsets")) >= 3

(***************************************************************************)
(* C10.  Validation precedes emission: every fatal check of the loader,    *)
(* the object placer and the density validator is evaluated before the     *)
(* output file is opened, so until the run reaches the emitter, and in     *)
(* every run that aborts in one of those stages, the output file is        *)
(* unopened and holds what it held before the run; the only abort after    *)
(* the file is opened is the landmark-table overflow.                      *)
(***************************************************************************)
C10_ValidationBeforeEmission ==
    /\ pc \in {"load", "raster", "place", "density", "open"} =>
          fstate = "unopened" /\ outfile = PreviousFile
    /\ (pc = "abort" /\ abortmsg # OverflowMsg) =>
          fstate = "unopened" /\ outfile = PreviousFile
    /\ (pc = "abort" /\ fstate # "unopened") => abortmsg = OverflowMsg
    /\ (pc = "abort" /\ abortmsg = OverflowMsg) =>
          fstate # "unopened" /\ outfile # PreviousFile

\* the density validator has aborted the run; the file is untouched
C10_Witness ==
    /\ pc = "abort"
    /\ abortmsg = "Too many sprites in quadrant"
    /\ fstate = "unopened"
    /\ outfile = PreviousFile

(***************************************************************************)
(* C1.  Density validator: whenever the run gets past the density check,   *)
(* every spriteview x spriteview window of the sprite grid whose top-left  *)
(* offset (xo, yo) satisfies 0 <= xo <= width - spriteview and             *)
(* 0 <= yo <= height - spriteview, both bounds included, contains at most  *)
(* spritemax cells with a non-zero id byte.                                *)
(***************************************************************************)
C1_DensityAllWindows ==
    pc \in PastDensity =>
        \A xo \in 0..(width - spriteview), yo \in 0..(height - spriteview) :
            Cardinality({ c \in (0..(spriteview - 1)) \X (0..(spriteview - 1)) :
                            smap[sbytes * ((xo + c[1]) + (yo + c[2]) * width) + 1] # 0 })
                <= spritemax

(***************************************************************************)
(* C2.  Single occupancy of the sprite grid: after the object placer has   *)
(* completed, each cell of the sprite grid has a non-zero id byte if and   *)
(* only if exactly one ordinary sprite object (rebased id neither the page *)
(* id nor the slender id) maps to that cell by its floor-rounded           *)
(* coordinates, and that byte is that object's rebased id.                 *)
(***************************************************************************)
C2_SingleOccupancy ==
    pc \in PastPlace =>
        \A x \in 0..(width - 1), y \in 0..(height - 1) :
            LET here == { k \in 1..Len(Objects) :
                            /\ Max(0, Objects[k].gid - spritegid[1])
                                  \notin {pagesprite, slendersprite}
                            /\ MapX(Objects[k]) = x
                            /\ MapY(Objects[k]) = y }
                idbyte == smap[sbytes * (x + y * width) + 1]
            IN  /\ idbyte # 0 <=> Cardinality(here) = 1
                /\ \A k \in here : idbyte = Max(0, Objects[k].gid - spritegid[1])

(***************************************************************************)
(* C7.  Landmark routing validation: every page or slender object that the *)
(* placer has accepted has a name that parses to an integer L with         *)
(* 0 <= L <= 19; no name outside 0..19, negative integers included, is     *)
(* ever routed into one of the landmark slots.                             *)
(***************************************************************************)
C7_LandmarkIndexInRange ==
    pc \in {"place"} \cup PastPlace =>
        \A k \in 1..objidx :
            Max(0, Objects[k].gid - spritegid[1]) \in {pagesprite, slendersprite} =>
                /\ ParseInt(Objects[k].name) # None
                /\ ParseInt(Objects[k].name)[1] \in 0..(NumLandmarks - 1)

(***************************************************************************)
(* C8.  Loader: the run aborts in the loader if the document has no layer  *)
(* of type tilelayer, no layer of type objectgroup, no tileset whose       *)
(* source contains "tile" or no tileset whose source contains "sprite";    *)
(* and when the document has a tileset whose source contains "tile" and a  *)
(* tileset whose source contains "sprite", both first-global-id offsets    *)
(* are found and are firstgid values of such tilesets.                     *)
(***************************************************************************)
C8_Loader ==
    LET tiles == { k \in 1..Len(jmap.tilesets) :
                     Contains(<<"t", "i", "l", "e">>, jmap.tilesets[k].source) }
        sprites == { k \in 1..Len(jmap.tilesets) :
                       Contains(<<"s", "p", "r", "i", "t", "e">>, jmap.tilesets[k].source) }
        complete ==
            /\ \E k \in 1..Len(jmap.layers) : jmap.layers[k].type = "tilelayer"
            /\ \E k \in 1..Len(jmap.layers) : jmap.layers[k].type = "objectgroup"
            /\ tiles # {}
            /\ sprites # {}
    IN  pc # "load" =>
          /\ ~complete => (pc = "abort" /\ abortmsg \in LoaderMsgs /\ tmap = <<>>)
          /\ (tiles # {} /\ sprites # {}) =>
                /\ tilegid # None
                /\ spritegid # None
                /\ \E k \in tiles : jmap.tilesets[k].firstgid = tilegid[1]
                /\ \E k \in sprites : jmap.tilesets[k].firstgid = spritegid[1]

(***************************************************************************)
(* C9.  Sprite placement stays inside the grid: for every ordinary sprite  *)
(* object the placer has written, the computed cell satisfies              *)
(* 0 <= mapx < width and 0 <= mapy < height, and the two bytes of exactly  *)
(* that cell hold the object's id and packed fraction.                     *)
(***************************************************************************)
C9_PlacementInsideGrid ==
    pc \in {"place"} \cup PastPlace =>
        \A k \in 1..objidx :
            LET id == Max(0, Objects[k].gid - spritegid[1])
                mapx == MapX(Objects[k])
                mapy == MapY(Objects[k])
            IN  id \notin {pagesprite, slendersprite} =>
                    /\ 0 <= mapx /\ mapx < width
                    /\ 0 <= mapy /\ mapy < height
                    /\ smap[sbytes * (mapx + mapy * width) + 1] = id

=============================================================================
